---- MODULE Spec2Model ----
(***************************************************************************)
(* Model of EVMAssembly (libyul/backends/evm/EVMAssembly.cpp): a single-   *)
(* pass byte-code assembler with deferred patching of label and size       *)
(* references, for the legacy EVM and for EVM1.5.                          *)
(*                                                                         *)
(* The assembler object is the record built by Cur; every member function  *)
(* is an operator from such a record to the record after the call.  A      *)
(* failing yulAssert throws: the field ok becomes FALSE and the rest of    *)
(* the function is skipped, so whatever was written before the throw stays *)
(* written.  The exception leaves the assembler: no call follows a call    *)
(* that threw.  Buffer offsets are 0-based as in the source; the byte at   *)
(* offset p is m_bytecode[p + 1].                                          *)
(***************************************************************************)
EXTENDS Integers, Sequences, FiniteSets, TLC

VARIABLES
    m_evm15,                  \* bool m_evm15
    m_nextLabelId,            \* LabelID m_nextLabelId
    m_stackHeight,            \* int m_stackHeight
    m_bytecode,               \* bytes m_bytecode
    m_namedLabels,            \* map<string, LabelID>
    m_labelPositions,         \* map<LabelID, size_t>
    m_labelReferences,        \* map<size_t, LabelID>
    m_assemblySizePositions,  \* vector<size_t>
    last,                     \* the call made last: name, arguments, outcome
    obj,                      \* bytecode of the LinkerObject returned by it
    nFinalize,                \* history: number of finalize() calls that returned
    sumDiffs,                 \* history: sum of the stack deltas of the calls
    nOps                      \* number of calls made so far

vars == <<m_evm15, m_nextLabelId, m_stackHeight, m_bytecode, m_namedLabels,
          m_labelPositions, m_labelReferences, m_assemblySizePositions,
          last, obj, nFinalize, sumDiffs, nOps>>

----------------------------------------------------------------------------
(* Bounds of the exploration.                                              *)

MaxOps == 4

MaxLabels == 2

MaxLen == 10

NumericLen == 5

(* Inputs of the calls. LabelIds holds one identifier more than can be     *)
(* allocated, so that an unknown identifier is always available.           *)

LabelIds == 0 .. MaxLabels

Names == {"", "a"}

StackDiffs == {2}

ArgCounts == {-1, 1}

ReturnCounts == {-1, 3}

ConstantValues == {258}

(* Inputs of the numeric specification: values on both sides of every     *)
(* width from one to four bytes.  The integers of the checker end at      *)
(* 2^31 - 1, so a value of four bytes has its first byte below 128.        *)

WideConstants ==
    (0 .. 2) \cup (254 .. 258) \cup (65534 .. 65537)
        \cup (16777214 .. 16777217) \cup {2147483646, 2147483647}

RefPositions == 0 .. NumericLen

RefSizes == 1 .. 4

RefValues ==
    {0, 1, 255, 256, 258, 65535, 65536, 16777215, 16777216, 2147483647}

----------------------------------------------------------------------------
(* Constants of the source and of libevmasm/Instruction.h.                 *)

labelReferenceSize == 4

assemblySizeReferenceSize == 4

\* size_t(-1), the position of a label that has not been set
NoPosition == 0 - 1

STOP == 0

ADD == 1

JUMP == 86

JUMPI == 87

JUMPDEST == 91

PUSH1 == 96

JUMPTO == 176

JUMPIF == 177

JUMPSUB == 179

BEGINSUB == 181

RETURNSUB == 183

Instructions == {ADD}

\* instructionInfo(_instr).args
InstrArgs(_instr) ==
    CASE _instr = ADD -> 2
      [] _instr = JUMP -> 1
      [] _instr = JUMPI -> 2
      [] _instr = JUMPDEST -> 0
      [] _instr \in PUSH1 .. (PUSH1 + 31) -> 0
      [] OTHER -> 0

\* instructionInfo(_instr).ret
InstrRet(_instr) ==
    CASE _instr = ADD -> 1
      [] _instr = JUMP -> 0
      [] _instr = JUMPI -> 0
      [] _instr = JUMPDEST -> 0
      [] _instr \in PUSH1 .. (PUSH1 + 31) -> 1
      [] OTHER -> 0

\* pushInstruction(_number): PUSH1 + _number - 1
pushInstruction(_number) == PUSH1 + _number - 1

\* v >> n on unsigned integers
RECURSIVE ShiftRight(_, _)
ShiftRight(v, n) == IF n = 0 \/ v = 0 THEN v ELSE ShiftRight(v \div 2, n - 1)

\* number of times v is shifted right by 8 bits until it is zero
RECURSIVE ByteCount(_)
ByteCount(v) == IF v = 0 THEN 0 ELSE 1 + ByteCount(ShiftRight(v, 8))

\* toBigEndian(_val, ret): fills the size bytes of ret from the last to the first
toBigEndian(_val, size) ==
    [i \in 1 .. size |-> ShiftRight(_val, 8 * (size - i)) % 256]

\* toCompactBigEndian(_val, _min)
toCompactBigEndian(_val, _min) ==
    LET i == ByteCount(_val)
    IN  toBigEndian(_val, IF _min > i THEN _min ELSE i)

\* bytes(n): n zero bytes
ZeroBytes(n) == [i \in 1 .. n |-> 0]

\* big-endian value of the size bytes of b at offset pos
RECURSIVE ReadBigEndian(_, _, _)
ReadBigEndian(b, pos, size) ==
    IF size = 0 THEN 0
    ELSE 256 * ReadBigEndian(b, pos, size - 1) + b[pos + size]

----------------------------------------------------------------------------
(* The assembler object and the member functions.                          *)

Cur ==
    [evm15 |-> m_evm15, nextLabelId |-> m_nextLabelId,
     stackHeight |-> m_stackHeight, bytecode |-> m_bytecode,
     namedLabels |-> m_namedLabels, labelPositions |-> m_labelPositions,
     labelReferences |-> m_labelReferences,
     assemblySizePositions |-> m_assemblySizePositions,
     ok |-> TRUE, ret |-> NoPosition]

\* yulAssert(cond, ...): throws unless cond
yulAssert(s, cond) == IF cond THEN s ELSE [s EXCEPT !.ok = FALSE]

appendInstruction(s, _instr) ==
    [s EXCEPT !.bytecode = Append(@, _instr),
              !.stackHeight = @ + InstrRet(_instr) - InstrArgs(_instr)]

\* appendConstant without the minimum of one byte
appendConstant_NoMinimum(s, _constant) ==
    LET data == toCompactBigEndian(_constant, 0)
        s1 == appendInstruction(s, pushInstruction(Len(data)))
    IN  IF s1.ok THEN [s1 EXCEPT !.bytecode = @ \o data] ELSE s1

appendConstant(s, _constant) ==
    LET data == toCompactBigEndian(_constant, 1)
        s1 == appendInstruction(s, pushInstruction(Len(data)))
    IN  [s1 EXCEPT !.bytecode = @ \o data]

\* setLabelToCurrentPosition without the check that the label is unset
setLabelToCurrentPosition_Again(s, _labelId) ==
    LET s1 == yulAssert(s, _labelId \in DOMAIN s.labelPositions)
    IN  IF s1.ok
        THEN [s1 EXCEPT !.labelPositions =
                 (_labelId :> Len(s1.bytecode)) @@
                 [i \in DOMAIN @ \ {_labelId} |-> @[i]]]
        ELSE s1

setLabelToCurrentPosition(s, _labelId) ==
    LET s1 == yulAssert(s, _labelId \in DOMAIN s.labelPositions)
        s2 == IF s1.ok
              THEN yulAssert(s1, s1.labelPositions[_labelId] = NoPosition)
              ELSE s1
    IN  IF s2.ok
        THEN [s2 EXCEPT !.labelPositions =
                 (_labelId :> Len(s2.bytecode)) @@ @]
        ELSE s2

\* appendLabel emitting the marker before it sets the label
appendLabel_MarkerFirst(s, _labelId) ==
    setLabelToCurrentPosition(appendInstruction(s, JUMPDEST), _labelId)

appendLabel(s, _labelId) ==
    LET s1 == setLabelToCurrentPosition(s, _labelId)
    IN  IF s1.ok THEN appendInstruction(s1, JUMPDEST) ELSE s1

\* appendLabelReference checking the mode after it has emitted the push
appendLabelReference_LateCheck(s, _labelId) ==
    LET s1 == appendInstruction(s, pushInstruction(labelReferenceSize))
        s2 == yulAssert(s1, ~s1.evm15)
    IN  IF s2.ok
        THEN [s2 EXCEPT
                 !.labelReferences = (Len(s2.bytecode) :> _labelId) @@ @,
                 !.bytecode = @ \o ZeroBytes(labelReferenceSize)]
        ELSE s2

appendLabelReference(s, _labelId) ==
    LET s1 == yulAssert(s, ~s.evm15)
        s2 == IF s1.ok
              THEN appendInstruction(s1, pushInstruction(labelReferenceSize))
              ELSE s1
    IN  IF s2.ok
        THEN [s2 EXCEPT
                 !.labelReferences = (Len(s2.bytecode) :> _labelId) @@ @,
                 !.bytecode = @ \o ZeroBytes(labelReferenceSize)]
        ELSE s2

\* newLabelId that does not advance m_nextLabelId
newLabelId_SameId(s) ==
    [s EXCEPT !.labelPositions = (s.nextLabelId :> NoPosition) @@
                  [i \in DOMAIN @ \ {s.nextLabelId} |-> @[i]],
              !.ret = s.nextLabelId]

newLabelId(s) ==
    [s EXCEPT !.labelPositions = (s.nextLabelId :> NoPosition) @@ @,
              !.ret = s.nextLabelId,
              !.nextLabelId = @ + 1]

\* namedLabel allocating a label on every call
namedLabel_AlwaysNew(s, _name) ==
    LET s1 == yulAssert(s, _name # "")
    IN  IF s1.ok
        THEN LET a == newLabelId(s1)
             IN  [a EXCEPT !.namedLabels =
                     (_name :> a.ret) @@ [n \in DOMAIN @ \ {_name} |-> @[n]]]
        ELSE s1

namedLabel(s, _name) ==
    LET s1 == yulAssert(s, _name # "")
        s2 == IF s1.ok /\ _name \notin DOMAIN s1.namedLabels
              THEN LET a == newLabelId(s1)
                   IN  [a EXCEPT !.namedLabels = (_name :> a.ret) @@ @]
              ELSE s1
    IN  IF s2.ok THEN [s2 EXCEPT !.ret = s2.namedLabels[_name]] ELSE s2

\* appendLinkerSymbol that returns without doing anything
appendLinkerSymbol_NoOp(s) == s

appendLinkerSymbol(s) == yulAssert(s, FALSE)

\* appendJump without the check of the mode
appendJump_AnyMode(s, _stackDiffAfter) ==
    LET s2 == appendInstruction(s, JUMP)
    IN  [s2 EXCEPT !.stackHeight = @ + _stackDiffAfter]

\* appendJump forgetting that JUMP pops the target
appendJump_DiffOnly(s, _stackDiffAfter) ==
    LET s1 == yulAssert(s, ~s.evm15)
    IN  IF s1.ok
        THEN [s1 EXCEPT !.bytecode = Append(@, JUMP),
                        !.stackHeight = @ + _stackDiffAfter]
        ELSE s1

appendJump(s, _stackDiffAfter) ==
    LET s1 == yulAssert(s, ~s.evm15)
        s2 == IF s1.ok THEN appendInstruction(s1, JUMP) ELSE s1
    IN  IF s2.ok
        THEN [s2 EXCEPT !.stackHeight = @ + _stackDiffAfter]
        ELSE s2

appendJumpOut(s, _stackDiffAfter) == appendJump(s, _stackDiffAfter)

appendLabelReferenceInternal(s, _labelId) ==
    [s EXCEPT !.labelReferences = (Len(s.bytecode) :> _labelId) @@ @,
              !.bytecode = @ \o ZeroBytes(labelReferenceSize)]

\* appendJumpTo recording the EVM1.5 reference before it emits the opcode
appendJumpTo_ReferenceFirst(s, _labelId, _stackDiffAfter) ==
    IF s.evm15
    THEN LET s1 == appendLabelReferenceInternal(s, _labelId)
             s2 == [s1 EXCEPT !.bytecode = Append(@, JUMPTO)]
         IN  [s2 EXCEPT !.stackHeight = @ + _stackDiffAfter]
    ELSE LET s1 == appendLabelReference(s, _labelId)
         IN  IF s1.ok THEN appendJump(s1, _stackDiffAfter) ELSE s1

appendJumpTo(s, _labelId, _stackDiffAfter) ==
    IF s.evm15
    THEN LET s1 == [s EXCEPT !.bytecode = Append(@, JUMPTO)]
             s2 == appendLabelReferenceInternal(s1, _labelId)
         IN  [s2 EXCEPT !.stackHeight = @ + _stackDiffAfter]
    ELSE LET s1 == appendLabelReference(s, _labelId)
         IN  IF s1.ok THEN appendJump(s1, _stackDiffAfter) ELSE s1

\* appendJumpToIf emitting the unconditional jump in legacy mode
appendJumpToIf_PlainJump(s, _labelId) ==
    IF s.evm15
    THEN LET s1 == [s EXCEPT !.bytecode = Append(@, JUMPIF)]
             s2 == appendLabelReferenceInternal(s1, _labelId)
         IN  [s2 EXCEPT !.stackHeight = @ - 1]
    ELSE LET s1 == appendLabelReference(s, _labelId)
         IN  IF s1.ok THEN appendInstruction(s1, JUMP) ELSE s1

appendJumpToIf(s, _labelId) ==
    IF s.evm15
    THEN LET s1 == [s EXCEPT !.bytecode = Append(@, JUMPIF)]
             s2 == appendLabelReferenceInternal(s1, _labelId)
         IN  [s2 EXCEPT !.stackHeight = @ - 1]
    ELSE LET s1 == appendLabelReference(s, _labelId)
         IN  IF s1.ok THEN appendInstruction(s1, JUMPI) ELSE s1

\* appendBeginsub checking the argument count after it has set the label
appendBeginsub_LateCheck(s, _labelId, _arguments) ==
    LET s1 == yulAssert(s, s.evm15)
        s2 == IF s1.ok THEN setLabelToCurrentPosition(s1, _labelId) ELSE s1
        s3 == IF s2.ok THEN yulAssert(s2, _arguments >= 0) ELSE s2
    IN  IF s3.ok
        THEN [s3 EXCEPT !.bytecode = Append(@, BEGINSUB),
                        !.stackHeight = @ + _arguments]
        ELSE s3

appendBeginsub(s, _labelId, _arguments) ==
    LET s1 == yulAssert(s, s.evm15)
        s2 == IF s1.ok THEN yulAssert(s1, _arguments >= 0) ELSE s1
        s3 == IF s2.ok THEN setLabelToCurrentPosition(s2, _labelId) ELSE s2
    IN  IF s3.ok
        THEN [s3 EXCEPT !.bytecode = Append(@, BEGINSUB),
                        !.stackHeight = @ + _arguments]
        ELSE s3

appendJumpsub(s, _labelId, _arguments, _returns) ==
    LET s1 == yulAssert(s, s.evm15)
        s2 == IF s1.ok
              THEN yulAssert(s1, _arguments >= 0 /\ _returns >= 0)
              ELSE s1
    IN  IF s2.ok
        THEN LET s3 == [s2 EXCEPT !.bytecode = Append(@, JUMPSUB)]
                 s4 == appendLabelReferenceInternal(s3, _labelId)
             IN  [s4 EXCEPT !.stackHeight = @ + _returns - _arguments]
        ELSE s2

appendReturnsub(s, _returns, _stackDiffAfter) ==
    LET s1 == yulAssert(s, s.evm15)
        s2 == IF s1.ok THEN yulAssert(s1, _returns >= 0) ELSE s1
    IN  IF s2.ok
        THEN [s2 EXCEPT !.bytecode = Append(@, RETURNSUB),
                        !.stackHeight = @ + _stackDiffAfter - _returns]
        ELSE s2

\* appendAssemblySize recording the position before it emits the push
appendAssemblySize_PositionFirst(s) ==
    LET s1 == [s EXCEPT !.assemblySizePositions = Append(@, Len(s.bytecode))]
        s2 == appendInstruction(s1,
                                pushInstruction(assemblySizeReferenceSize))
    IN  [s2 EXCEPT !.bytecode = @ \o ZeroBytes(assemblySizeReferenceSize)]

appendAssemblySize(s) ==
    LET s1 == appendInstruction(s, pushInstruction(assemblySizeReferenceSize))
    IN  [s1 EXCEPT
            !.assemblySizePositions = Append(@, Len(s1.bytecode)),
            !.bytecode = @ \o ZeroBytes(assemblySizeReferenceSize)]

createSubAssembly(s) == yulAssert(s, FALSE)

appendDataOffset(s) == yulAssert(s, FALSE)

appendDataSize(s) == yulAssert(s, FALSE)

appendData(s) == yulAssert(s, FALSE)

\* updateReference writing the least significant byte first
updateReference_LittleEndian(s, pos, size, value) ==
    LET s1 == yulAssert(s, Len(s.bytecode) >= size
                           /\ pos <= Len(s.bytecode) - size)
        s2 == IF s1.ok THEN yulAssert(s1, ShiftRight(value, 8 * size) = 0)
              ELSE s1
    IN  IF s2.ok
        THEN [s2 EXCEPT !.bytecode =
                 [k \in 1 .. Len(@) |->
                     IF k - 1 >= pos /\ k - 1 < pos + size
                     THEN ShiftRight(value, 8 * (k - 1 - pos)) % 256
                     ELSE @[k]]]
        ELSE s2

\* updateReference writing one byte too early
updateReference_OneEarly(s, pos, size, value) ==
    LET s1 == yulAssert(s, Len(s.bytecode) >= size
                           /\ pos <= Len(s.bytecode) - size)
        s2 == IF s1.ok THEN yulAssert(s1, ShiftRight(value, 8 * size) = 0)
              ELSE s1
    IN  IF s2.ok
        THEN [s2 EXCEPT !.bytecode =
                 [k \in 1 .. Len(@) |->
                     IF k >= pos /\ k < pos + size
                     THEN ShiftRight(value, 8 * (size - (k - pos) - 1)) % 256
                     ELSE @[k]]]
        ELSE s2

\* updateReference without the assertion that the value fits the width
updateReference_Truncating(s, pos, size, value) ==
    LET s1 == yulAssert(s, Len(s.bytecode) >= size
                           /\ pos <= Len(s.bytecode) - size)
    IN  IF s1.ok
        THEN [s1 EXCEPT !.bytecode =
                 [k \in 1 .. Len(@) |->
                     IF k - 1 >= pos /\ k - 1 < pos + size
                     THEN ShiftRight(value, 8 * (size - (k - 1 - pos) - 1))
                          % 256
                     ELSE @[k]]]
        ELSE s1

updateReference(s, pos, size, value) ==
    LET s1 == yulAssert(s, Len(s.bytecode) >= size
                           /\ pos <= Len(s.bytecode) - size)
        s2 == IF s1.ok THEN yulAssert(s1, ShiftRight(value, 8 * size) = 0)
              ELSE s1
    IN  IF s2.ok
        THEN [s2 EXCEPT !.bytecode =
                 [k \in 1 .. Len(@) |->
                     IF k - 1 >= pos /\ k - 1 < pos + size
                     THEN ShiftRight(value, 8 * (size - (k - 1 - pos) - 1))
                          % 256
                     ELSE @[k]]]
        ELSE s2

\* PatchSizes patching in the size the buffer had when the reference was made
RECURSIVE PatchSizes_AtEmission(_, _, _)
PatchSizes_AtEmission(s, i, bytecodeSize) ==
    IF ~s.ok \/ i > Len(s.assemblySizePositions) THEN s
    ELSE PatchSizes_AtEmission(
             updateReference(s, s.assemblySizePositions[i],
                             assemblySizeReferenceSize,
                             s.assemblySizePositions[i]
                                 + assemblySizeReferenceSize),
             i + 1, bytecodeSize)

\* first loop of finalize, over m_assemblySizePositions from index i on
RECURSIVE PatchSizes(_, _, _)
PatchSizes(s, i, bytecodeSize) ==
    IF ~s.ok \/ i > Len(s.assemblySizePositions) THEN s
    ELSE PatchSizes(updateReference(s, s.assemblySizePositions[i],
                                    assemblySizeReferenceSize, bytecodeSize),
                    i + 1, bytecodeSize)

\* least element of a non-empty set of offsets
MinOf(S) == CHOOSE x \in S : \A y \in S : x <= y

\* finalizeLabelReference leaving references to unset labels unpatched
finalizeLabelReference_SkipUnset(s, referencePos) ==
    LET id == s.labelReferences[referencePos]
        s1 == yulAssert(s, id \in DOMAIN s.labelPositions)
    IN  IF s1.ok /\ s1.labelPositions[id] # NoPosition
        THEN updateReference(s1, referencePos, labelReferenceSize,
                             s1.labelPositions[id])
        ELSE s1

\* finalizeLabelReference leaving references to unknown labels unpatched
finalizeLabelReference_SkipUnknown(s, referencePos) ==
    LET id == s.labelReferences[referencePos]
    IN  IF id \notin DOMAIN s.labelPositions THEN s
        ELSE LET s2 == yulAssert(s, s.labelPositions[id] # NoPosition)
             IN  IF s2.ok
                 THEN updateReference(s2, referencePos, labelReferenceSize,
                                      s2.labelPositions[id])
                 ELSE s2

\* body of the second loop of finalize, for the reference at referencePos
finalizeLabelReference(s, referencePos) ==
    LET id == s.labelReferences[referencePos]
        s1 == yulAssert(s, id \in DOMAIN s.labelPositions)
        s2 == IF s1.ok
              THEN yulAssert(s1, s1.labelPositions[id] # NoPosition)
              ELSE s1
    IN  IF s2.ok
        THEN updateReference(s2, referencePos, labelReferenceSize,
                             s2.labelPositions[id])
        ELSE s2

\* second loop of finalize, over the keys of m_labelReferences in todo,
\* in increasing order as std::map iterates
RECURSIVE PatchLabels(_, _)
PatchLabels(s, todo) ==
    IF ~s.ok \/ todo = {} THEN s
    ELSE PatchLabels(finalizeLabelReference(s, MinOf(todo)),
                     todo \ {MinOf(todo)})

\* finalize forgetting the label references it has patched
finalize_ClearReferences(s) ==
    LET bytecodeSize == Len(s.bytecode)
        s1 == PatchSizes(s, 1, bytecodeSize)
        s2 == PatchLabels(s1, DOMAIN s1.labelReferences)
    IN  IF s2.ok THEN [s2 EXCEPT !.labelReferences = << >>] ELSE s2

finalize(s) ==
    LET bytecodeSize == Len(s.bytecode)
        s1 == PatchSizes(s, 1, bytecodeSize)
    IN  PatchLabels(s1, DOMAIN s1.labelReferences)

----------------------------------------------------------------------------
(* The calls.                                                              *)

NoId == 0 - 1

\* the state after a call with the integer arguments args (other than a
\* label) that took the object from Cur to s
CommitArgs(s, op, id, name, args, diff) ==
    /\ last.ok
    /\ nOps < MaxOps
    /\ Len(s.bytecode) <= MaxLen
    /\ nOps' = nOps + 1
    /\ m_evm15' = s.evm15
    /\ m_nextLabelId' = s.nextLabelId
    /\ m_stackHeight' = s.stackHeight
    /\ m_bytecode' = s.bytecode
    /\ m_namedLabels' = s.namedLabels
    /\ m_labelPositions' = s.labelPositions
    /\ m_labelReferences' = s.labelReferences
    /\ m_assemblySizePositions' = s.assemblySizePositions
    /\ last' = [op |-> op, ok |-> s.ok, ret |-> s.ret, id |-> id,
                name |-> name, args |-> args]
    /\ obj' = IF op = "finalize" /\ s.ok THEN s.bytecode ELSE << >>
    /\ nFinalize' = IF op = "finalize" /\ s.ok THEN nFinalize + 1 ELSE nFinalize
    /\ sumDiffs' = IF s.ok THEN sumDiffs + diff ELSE sumDiffs

\* the state after a call without such arguments
Commit(s, op, id, name, diff) == CommitArgs(s, op, id, name, << >>, diff)

Init ==
    /\ m_evm15 \in BOOLEAN
    /\ m_nextLabelId = 0
    /\ m_stackHeight = 0
    /\ m_bytecode = << >>
    /\ m_namedLabels = << >>
    /\ m_labelPositions = << >>
    /\ m_labelReferences = << >>
    /\ m_assemblySizePositions = << >>
    /\ last = [op |-> "construct", ok |-> TRUE, ret |-> NoPosition,
               id |-> NoId, name |-> "", args |-> << >>]
    /\ obj = << >>
    /\ nFinalize = 0
    /\ sumDiffs = 0
    /\ nOps = 0

Call_appendInstruction ==
    \E i \in Instructions :
        Commit(appendInstruction(Cur, i), "appendInstruction", NoId, "",
               InstrRet(i) - InstrArgs(i))

Call_appendConstant ==
    \E c \in ConstantValues :
        CommitArgs(appendConstant(Cur, c), "appendConstant", NoId, "", <<c>>, 1)

Call_appendLabel ==
    \E l \in LabelIds :
        Commit(appendLabel(Cur, l), "appendLabel", l, "", 0)

Call_appendLabelReference ==
    \E l \in LabelIds :
        Commit(appendLabelReference(Cur, l), "appendLabelReference", l, "", 1)

Call_newLabelId ==
    /\ m_nextLabelId < MaxLabels
    /\ Commit(newLabelId(Cur), "newLabelId", NoId, "", 0)

Call_namedLabel ==
    \E n \in Names :
        /\ (n \in DOMAIN m_namedLabels \/ n = "" \/ m_nextLabelId < MaxLabels)
        /\ Commit(namedLabel(Cur, n), "namedLabel", NoId, n, 0)

Call_appendLinkerSymbol ==
    Commit(appendLinkerSymbol(Cur), "appendLinkerSymbol", NoId, "", 0)

Call_appendJumpOut ==
    \E d \in StackDiffs :
        CommitArgs(appendJumpOut(Cur, d), "appendJumpOut", NoId, "", <<d>>,
                   d - 1)

Call_appendJump ==
    \E d \in StackDiffs :
        CommitArgs(appendJump(Cur, d), "appendJump", NoId, "", <<d>>, d - 1)

Call_appendJumpTo ==
    \E l \in LabelIds, d \in StackDiffs :
        CommitArgs(appendJumpTo(Cur, l, d), "appendJumpTo", l, "", <<d>>, d)

Call_appendJumpToIf ==
    \E l \in LabelIds :
        Commit(appendJumpToIf(Cur, l), "appendJumpToIf", l, "", 0 - 1)

Call_appendBeginsub ==
    \E l \in LabelIds, a \in ArgCounts :
        CommitArgs(appendBeginsub(Cur, l, a), "appendBeginsub", l, "", <<a>>, a)

Call_appendJumpsub ==
    \E l \in LabelIds, a \in ArgCounts, r \in ReturnCounts :
        CommitArgs(appendJumpsub(Cur, l, a, r), "appendJumpsub", l, "",
                   <<a, r>>, r - a)

Call_appendReturnsub ==
    \E r \in ReturnCounts, d \in StackDiffs :
        CommitArgs(appendReturnsub(Cur, r, d), "appendReturnsub", NoId, "",
                   <<r, d>>, d - r)

Call_appendAssemblySize ==
    Commit(appendAssemblySize(Cur), "appendAssemblySize", NoId, "", 1)

Call_createSubAssembly ==
    Commit(createSubAssembly(Cur), "createSubAssembly", NoId, "", 0)

Call_appendDataOffset ==
    Commit(appendDataOffset(Cur), "appendDataOffset", NoId, "", 0)

Call_appendDataSize ==
    Commit(appendDataSize(Cur), "appendDataSize", NoId, "", 0)

Call_appendData ==
    Commit(appendData(Cur), "appendData", NoId, "", 0)

Call_finalize ==
    Commit(finalize(Cur), "finalize", NoId, "", 0)

Next ==
    \/ Call_appendInstruction
    \/ Call_appendConstant
    \/ Call_appendLabel
    \/ Call_appendLabelReference
    \/ Call_newLabelId
    \/ Call_namedLabel
    \/ Call_appendLinkerSymbol
    \/ Call_appendJumpOut
    \/ Call_appendJump
    \/ Call_appendJumpTo
    \/ Call_appendJumpToIf
    \/ Call_appendBeginsub
    \/ Call_appendJumpsub
    \/ Call_appendReturnsub
    \/ Call_appendAssemblySize
    \/ Call_createSubAssembly
    \/ Call_appendDataOffset
    \/ Call_appendDataSize
    \/ Call_appendData
    \/ Call_finalize

Spec == Init /\ [][Next]_vars

----------------------------------------------------------------------------
(* The numeric specification: appendConstant and updateReference as        *)
(* functions of their arguments, applied once to an object whose buffer    *)
(* holds n STOP instructions.                                              *)

InitNumeric ==
    /\ m_evm15 \in BOOLEAN
    /\ m_nextLabelId = 0
    /\ m_stackHeight = 0
    /\ m_bytecode \in {[i \in 1 .. n |-> STOP] : n \in 0 .. NumericLen}
    /\ m_namedLabels = << >>
    /\ m_labelPositions = << >>
    /\ m_labelReferences = << >>
    /\ m_assemblySizePositions = << >>
    /\ last = [op |-> "construct", ok |-> TRUE, ret |-> NoPosition,
               id |-> NoId, name |-> "", args |-> << >>]
    /\ obj = << >>
    /\ nFinalize = 0
    /\ sumDiffs = 0
    /\ nOps = 0

Call_appendConstantWide ==
    /\ nOps = 0
    /\ \E c \in WideConstants :
           CommitArgs(appendConstant(Cur, c), "appendConstant", NoId, "",
                      <<c>>, 1)

Call_updateReference ==
    /\ nOps = 0
    /\ \E pos \in RefPositions, size \in RefSizes, value \in RefValues :
           CommitArgs(updateReference(Cur, pos, size, value),
                      "updateReference", NoId, "", <<pos, size, value>>, 0)

NextNumeric ==
    \/ Call_appendConstantWide
    \/ Call_updateReference

SpecNumeric == InitNumeric /\ [][NextNumeric]_vars

----------------------------------------------------------------------------
(* Properties.                                                             *)

\* the last call was a finalize() that returned
FinalizeReturned == last.op = "finalize" /\ last.ok

\* the label that the pending reference at offset p targets
Target(p) == m_labelReferences[p]

\* every pending label reference targets a label whose position is set
AllReferencesResolved ==
    \A p \in DOMAIN m_labelReferences :
        /\ Target(p) \in DOMAIN m_labelPositions
        /\ m_labelPositions[Target(p)] # NoPosition

\* the members of the object other than the buffer are left as they were
ObjectFrame ==
    UNCHANGED <<m_evm15, m_nextLabelId, m_stackHeight, m_namedLabels,
                m_labelPositions, m_labelReferences, m_assemblySizePositions>>

\* C1: round trip. In the bytecode that finalize returns, the four bytes at
\* the offset of every pending label reference, read big-endian, are the
\* offset at which the referenced label was set, for references made before
\* and after the label was set, in both modes.
C1_RoundTrip ==
    FinalizeReturned =>
        \A p \in DOMAIN m_labelReferences :
            ReadBigEndian(obj, p, labelReferenceSize)
                = m_labelPositions[Target(p)]

\* a finalize that returned with a reference made before its label was set,
\* to a label that is not at offset 0
C1_Witness ==
    /\ FinalizeReturned
    /\ \E p \in DOMAIN m_labelReferences :
           /\ m_labelPositions[Target(p)] > p
           /\ ReadBigEndian(obj, p, labelReferenceSize) > 0

\* C2: size reference. In the bytecode that finalize returns, the four
\* bytes at every offset recorded by appendAssemblySize, read big-endian,
\* are the length of the whole returned bytecode, whatever was emitted after
\* the reference.
C2_SizeReference ==
    FinalizeReturned =>
        \A i \in 1 .. Len(m_assemblySizePositions) :
            ReadBigEndian(obj, m_assemblySizePositions[i],
                          assemblySizeReferenceSize) = Len(obj)

\* a finalize that returned with a size reference after which more was
\* emitted
C2_Witness ==
    /\ FinalizeReturned
    /\ \E i \in 1 .. Len(m_assemblySizePositions) :
           m_assemblySizePositions[i] + assemblySizeReferenceSize < Len(obj)

\* C3 as stated: once finalize has returned, every further call fails and
\* changes nothing.
C3_TwoPhaseEnforced ==
    [][nFinalize > 0 => (~last'.ok /\ ObjectFrame
                         /\ m_bytecode' = m_bytecode)]_vars

\* C3, amended: the object keeps no Finalized state. finalize changes
\* nothing but bytes of the buffer (the length of the buffer, the labels,
\* the pending references and the stack height stay as they were); a
\* finalize called right after a finalize that returned returns too, with
\* the same bytecode; and after a finalize that returned appendInstruction
\* still returns and appends its byte.
C3_FinalizeRepeatable ==
    [][/\ last'.op = "finalize" =>
              /\ ObjectFrame
              /\ Len(m_bytecode') = Len(m_bytecode)
              /\ FinalizeReturned =>
                     last'.ok /\ obj' = obj /\ m_bytecode' = m_bytecode
       /\ (nFinalize > 0 /\ last'.op = "appendInstruction") =>
              /\ last'.ok
              /\ Len(m_bytecode') = Len(m_bytecode) + 1]_vars

\* a second finalize has returned, with a patched size reference
C3_Witness ==
    /\ FinalizeReturned
    /\ nFinalize >= 2
    /\ \E i \in 1 .. Len(m_assemblySizePositions) :
           ReadBigEndian(obj, m_assemblySizePositions[i],
                         assemblySizeReferenceSize) > 0

\* C4 as stated: finalize fails whenever some allocated label has no
\* position.
C4_UnsetLabelFails ==
    (last.op = "finalize"
     /\ \E id \in DOMAIN m_labelPositions :
            m_labelPositions[id] = NoPosition)
        => ~last.ok

\* C4, amended: finalize fails whenever some pending reference targets an
\* allocated label that has no position; a label without position that no
\* pending reference targets does not make it fail.
C4_ReferencedUnsetLabelFails ==
    (last.op = "finalize"
     /\ \E p \in DOMAIN m_labelReferences :
            /\ Target(p) \in DOMAIN m_labelPositions
            /\ m_labelPositions[Target(p)] = NoPosition)
        => ~last.ok

\* a finalize that failed on a reference to an allocated, unset label
C4_Witness ==
    /\ last.op = "finalize"
    /\ ~last.ok
    /\ \A p \in DOMAIN m_labelReferences :
           Target(p) \in DOMAIN m_labelPositions
    /\ \E p \in DOMAIN m_labelReferences :
           m_labelPositions[Target(p)] = NoPosition

\* C5: finalize fails exactly when some pending label reference targets an
\* unknown label or a label without position; otherwise it returns, and the
\* bytecode of the object it returns is the patched buffer.
C5_FinalizeChecksReferences ==
    last.op = "finalize" =>
        /\ last.ok <=> AllReferencesResolved
        /\ last.ok => obj = m_bytecode

\* a finalize that returned the patched buffer, with a reference in it
\* to a label that was set before the reference was made
C5_Witness ==
    /\ FinalizeReturned
    /\ obj = m_bytecode
    /\ \E p \in DOMAIN m_labelReferences : m_labelPositions[Target(p)] < p

\* the calls that are valid in EVM1.5 mode only, and in legacy mode only
Evm15Only == {"appendBeginsub", "appendJumpsub", "appendReturnsub"}

LegacyOnly == {"appendJump", "appendJumpOut", "appendLabelReference"}

\* C6: mode mismatch. The mode never changes after construction; in legacy
\* mode appendBeginsub, appendJumpsub and appendReturnsub fail, and in
\* EVM1.5 mode appendJump, appendJumpOut and appendLabelReference fail.
C6_ModeMismatch ==
    [][/\ m_evm15' = m_evm15
       /\ (last'.op \in Evm15Only /\ ~m_evm15) => ~last'.ok
       /\ (last'.op \in LegacyOnly /\ m_evm15) => ~last'.ok]_vars

\* a plain jump that failed in EVM1.5 mode after something was emitted
C6_Witness ==
    /\ m_evm15
    /\ last.op \in {"appendJump", "appendJumpOut"}
    /\ ~last.ok
    /\ m_bytecode # << >>

\* C7: stack accounting. The stack height is the sum, over the calls that
\* returned, of: pushes - pops of the instruction for appendInstruction, +1
\* for appendConstant, appendAssemblySize and appendLabelReference,
\* _stackDiffAfter - 1 for a plain jump, _stackDiffAfter for appendJumpTo,
\* -1 for appendJumpToIf, _arguments for appendBeginsub, _returns -
\* _arguments for appendJumpsub, _stackDiffAfter - _returns for
\* appendReturnsub, and 0 for the label calls, finalize and failed calls.
C7_StackAccounting == m_stackHeight = sumDiffs

\* a legacy jump to a label has returned, the stack height not being 0
C7_Witness ==
    /\ ~m_evm15
    /\ last.op = "appendJumpTo"
    /\ last.ok
    /\ m_stackHeight # 0
    /\ nOps >= 3

\* C8: named labels. namedLabel fails for the empty name and returns for
\* any other; the identifier it returns is the one recorded for the name;
\* for a name seen before it is the identifier recorded then, and nothing
\* is allocated: the label positions and the next identifier stay as they
\* were. No other call changes or removes a recorded name.
C8_NamedLabelIdempotent ==
    [][/\ \A n \in DOMAIN m_namedLabels :
              n \in DOMAIN m_namedLabels'
              /\ m_namedLabels'[n] = m_namedLabels[n]
       /\ last'.op = "namedLabel" =>
              /\ last'.ok <=> last'.name # ""
              /\ last'.ok => last'.ret = m_namedLabels'[last'.name]
              /\ last'.name \in DOMAIN m_namedLabels =>
                     /\ last'.ret = m_namedLabels[last'.name]
                     /\ ObjectFrame
                     /\ m_bytecode' = m_bytecode]_vars

\* namedLabel has returned a label whose position was set before the call:
\* a later call with the name of an earlier one
C8_Witness ==
    /\ last.op = "namedLabel"
    /\ last.ok
    /\ m_labelPositions[last.ret] # NoPosition
    /\ m_nextLabelId = Cardinality(DOMAIN m_labelPositions)

\* the call that leads to the next state allocates a label
Allocates ==
    /\ last'.ok
    /\ \/ last'.op = "newLabelId"
       \/ last'.op = "namedLabel" /\ last'.name \notin DOMAIN m_namedLabels

\* C9: label identifiers. Every allocation (newLabelId, or namedLabel with
\* a name not seen before) returns an identifier greater than every
\* identifier allocated before, and the new label has no position; no other
\* call allocates.
C9_FreshLabelIds ==
    [][/\ Allocates =>
              /\ last'.ret \notin DOMAIN m_labelPositions
              /\ \A id \in DOMAIN m_labelPositions : id < last'.ret
              /\ DOMAIN m_labelPositions'
                     = DOMAIN m_labelPositions \cup {last'.ret}
              /\ m_labelPositions'[last'.ret] = NoPosition
       /\ ~Allocates =>
              DOMAIN m_labelPositions' = DOMAIN m_labelPositions]_vars

\* a second label has been allocated, by a name, after the first was used
C9_Witness ==
    /\ last.op = "namedLabel"
    /\ last.ok
    /\ last.ret = 1
    /\ m_labelPositions[0] # NoPosition

\* the calls that set the position of a label
Resolving == {"appendLabel", "appendBeginsub"}

\* C10: single resolution. A position that is set never changes, under any
\* call, finalize included; a position is set only by appendLabel or
\* appendBeginsub for that label, to the length of the buffer before the
\* call; and these calls fail when the label is unknown or already has a
\* position.
C10_SingleResolution ==
    [][/\ \A id \in DOMAIN m_labelPositions :
              /\ id \in DOMAIN m_labelPositions'
              /\ m_labelPositions[id] # NoPosition =>
                     m_labelPositions'[id] = m_labelPositions[id]
              /\ m_labelPositions'[id] # m_labelPositions[id] =>
                     /\ last'.op \in Resolving
                     /\ last'.ok
                     /\ last'.id = id
                     /\ m_labelPositions'[id] = Len(m_bytecode)
       /\ (/\ last'.op \in Resolving
           /\ \/ last'.id \notin DOMAIN m_labelPositions
              \/ m_labelPositions[last'.id] # NoPosition) => ~last'.ok]_vars

\* appendLabel has failed for a label that has a position, set at an offset
\* other than the length of the buffer
C10_Witness ==
    /\ last.op = "appendLabel"
    /\ ~last.ok
    /\ last.id \in DOMAIN m_labelPositions
    /\ m_labelPositions[last.id] # NoPosition
    /\ m_labelPositions[last.id] # Len(m_bytecode)

\* the calls that are not implemented
Unimplemented ==
    {"appendLinkerSymbol", "createSubAssembly", "appendDataOffset",
     "appendDataSize", "appendData"}

\* C11: unimplemented calls. appendLinkerSymbol, createSubAssembly,
\* appendDataOffset, appendDataSize and appendData fail on every call, in
\* both modes, before and after finalize, and change neither the buffer nor
\* the stack height, the labels or the pending references.
C11_UnimplementedFail ==
    [][last'.op \in Unimplemented =>
          /\ ~last'.ok
          /\ ObjectFrame
          /\ m_bytecode' = m_bytecode]_vars

\* appendData has failed on an object that holds a pending reference
C11_Witness ==
    /\ last.op = "appendData"
    /\ ~last.ok
    /\ DOMAIN m_labelReferences # {}
    /\ m_stackHeight # 0

\* the offsets of the bytes of the windows of the pending references
WindowOffsets ==
    UNION {p .. (p + labelReferenceSize - 1) : p \in DOMAIN m_labelReferences}
    \cup UNION {m_assemblySizePositions[i]
                    .. (m_assemblySizePositions[i]
                            + assemblySizeReferenceSize - 1) :
                i \in 1 .. Len(m_assemblySizePositions)}

\* C12: append-only buffer. Every call other than finalize leaves the
\* buffer as a prefix of the buffer after the call; finalize leaves the
\* length of the buffer as it was and changes no byte outside the 4-byte
\* windows at the recorded offsets of pending references.
C12_AppendOnly ==
    [][/\ last'.op # "finalize" =>
              /\ Len(m_bytecode') >= Len(m_bytecode)
              /\ SubSeq(m_bytecode', 1, Len(m_bytecode)) = m_bytecode
       /\ last'.op = "finalize" =>
              /\ Len(m_bytecode') = Len(m_bytecode)
              /\ \A k \in 1 .. Len(m_bytecode) :
                     m_bytecode'[k] # m_bytecode[k] =>
                         (k - 1) \in WindowOffsets]_vars

\* finalize has patched a size reference in a buffer that has bytes before
\* and after the window
C12_Witness ==
    /\ FinalizeReturned
    /\ nFinalize = 1
    /\ \E i \in 1 .. Len(m_assemblySizePositions) :
           /\ m_assemblySizePositions[i] > 1
           /\ m_assemblySizePositions[i] + assemblySizeReferenceSize
                  < Len(m_bytecode)
           /\ ReadBigEndian(m_bytecode, m_assemblySizePositions[i],
                            assemblySizeReferenceSize) = Len(m_bytecode)

\* the call that leads to the next state records a pending reference to
\* the label id at offset p, and leaves the others as they were
RegistersReference(p, id) ==
    /\ p \notin DOMAIN m_labelReferences
    /\ DOMAIN m_labelReferences' = DOMAIN m_labelReferences \cup {p}
    /\ m_labelReferences'[p] = id
    /\ \A q \in DOMAIN m_labelReferences :
           m_labelReferences'[q] = m_labelReferences[q]
    /\ m_assemblySizePositions' = m_assemblySizePositions

\* C13: legacy jumps. In legacy mode appendJumpToIf returns, appends PUSH4,
\* four zero bytes and JUMPI, records a pending reference to its label at
\* the offset of the first zero byte and lowers the stack height by 1;
\* appendJumpTo does the same with JUMP and changes the stack height by its
\* _stackDiffAfter.
C13_LegacyJumps ==
    [][/\ (~m_evm15 /\ last'.op = "appendJumpToIf") =>
              /\ last'.ok
              /\ m_bytecode' = m_bytecode \o <<PUSH1 + 3, 0, 0, 0, 0, JUMPI>>
              /\ RegistersReference(Len(m_bytecode) + 1, last'.id)
              /\ m_stackHeight' = m_stackHeight - 1
       /\ (~m_evm15 /\ last'.op = "appendJumpTo") =>
              /\ last'.ok
              /\ m_bytecode' = m_bytecode \o <<PUSH1 + 3, 0, 0, 0, 0, JUMP>>
              /\ RegistersReference(Len(m_bytecode) + 1, last'.id)
              /\ m_stackHeight' = m_stackHeight + last'.args[1]]_vars

\* a legacy conditional jump to an allocated label has been emitted behind
\* other code
C13_Witness ==
    /\ ~m_evm15
    /\ last.op = "appendJumpToIf"
    /\ last.ok
    /\ last.id \in DOMAIN m_labelPositions
    /\ Len(m_bytecode) > 6
    /\ m_stackHeight < 0

\* the opcode that an EVM1.5 jump emits
Evm15Opcode(op) ==
    CASE op = "appendJumpTo" -> JUMPTO
      [] op = "appendJumpToIf" -> JUMPIF
      [] op = "appendJumpsub" -> JUMPSUB

\* C14: EVM1.5 jumps. In EVM1.5 mode appendJumpTo and appendJumpToIf
\* return, and they and every appendJumpsub that returns append one opcode
\* byte (JUMPTO, JUMPIF, JUMPSUB) followed by four zero bytes, without a
\* push, and record a pending reference to the label at the offset after
\* the opcode; appendJumpToIf lowers the stack height by 1.
C14_Evm15Jumps ==
    [][/\ (m_evm15 /\ last'.op \in {"appendJumpTo", "appendJumpToIf"}) =>
              last'.ok
       /\ (/\ m_evm15
           /\ last'.op \in {"appendJumpTo", "appendJumpToIf", "appendJumpsub"}
           /\ last'.ok) =>
              /\ m_bytecode'
                     = m_bytecode \o <<Evm15Opcode(last'.op), 0, 0, 0, 0>>
              /\ RegistersReference(Len(m_bytecode) + 1, last'.id)
              /\ last'.op = "appendJumpToIf" =>
                     m_stackHeight' = m_stackHeight - 1]_vars

\* an EVM1.5 jump to a subroutine has been emitted behind another jump
C14_Witness ==
    /\ m_evm15
    /\ last.op = "appendJumpsub"
    /\ last.ok
    /\ Cardinality(DOMAIN m_labelReferences) = 2
    /\ m_bytecode[Len(m_bytecode) - 4] = JUMPSUB

\* C15: appendLabel. An appendLabel that returns sets its label to the
\* length of the buffer before the call, appends the one byte JUMPDEST and
\* leaves the stack height as it was; the byte that appendBeginsub appends
\* is a different one.
C15_AppendLabel ==
    [][/\ (last'.op = "appendLabel" /\ last'.ok) =>
              /\ m_bytecode' = Append(m_bytecode, JUMPDEST)
              /\ m_labelPositions'[last'.id] = Len(m_bytecode)
              /\ m_bytecode'[m_labelPositions'[last'.id] + 1] = JUMPDEST
              /\ m_stackHeight' = m_stackHeight
       /\ (last'.op = "appendBeginsub" /\ last'.ok) =>
              /\ Len(m_bytecode') = Len(m_bytecode) + 1
              /\ m_bytecode'[Len(m_bytecode')] # JUMPDEST]_vars

\* appendLabel has set a label behind other code, the stack not being empty
C15_Witness ==
    /\ last.op = "appendLabel"
    /\ last.ok
    /\ m_labelPositions[last.id] > 0
    /\ m_stackHeight # 0

\* some count among the arguments of the subroutine call that leads to the
\* next state is negative
NegativeCount ==
    \/ last'.op \in {"appendBeginsub", "appendReturnsub"}
       /\ last'.args[1] < 0
    \/ last'.op = "appendJumpsub"
       /\ (last'.args[1] < 0 \/ last'.args[2] < 0)

\* C16: subroutines. In EVM1.5 mode an appendBeginsub that returns sets its
\* label to the offset of the BEGINSUB byte it appends and raises the stack
\* height by _arguments, and it returns whenever _arguments >= 0 and the
\* label is known and unset; appendBeginsub, appendJumpsub and
\* appendReturnsub fail when a count is negative, and then the buffer, the
\* labels, the pending references and the stack height are as before.
C16_Subroutines ==
    [][/\ (m_evm15 /\ last'.op = "appendBeginsub") =>
              /\ last'.ok <=>
                     /\ last'.args[1] >= 0
                     /\ last'.id \in DOMAIN m_labelPositions
                     /\ m_labelPositions[last'.id] = NoPosition
              /\ last'.ok =>
                     /\ m_bytecode' = Append(m_bytecode, BEGINSUB)
                     /\ m_labelPositions'[last'.id] = Len(m_bytecode)
                     /\ m_stackHeight' = m_stackHeight + last'.args[1]
       /\ (last'.op \in Evm15Only /\ NegativeCount) =>
              /\ ~last'.ok
              /\ ObjectFrame
              /\ m_bytecode' = m_bytecode]_vars

\* in EVM1.5 mode appendBeginsub has failed on a negative count for a label
\* that is known and unset, behind other code
C16_Witness ==
    /\ m_evm15
    /\ last.op = "appendBeginsub"
    /\ ~last.ok
    /\ last.args[1] < 0
    /\ last.id \in DOMAIN m_labelPositions
    /\ m_labelPositions[last.id] = NoPosition
    /\ m_bytecode # << >>

\* the offsets recorded for size references
SizeOffsets ==
    {m_assemblySizePositions[i] : i \in 1 .. Len(m_assemblySizePositions)}

\* the offsets at which the windows of the pending references start
WindowStarts == DOMAIN m_labelReferences \cup SizeOffsets

\* no finalize has been called
NotFinalizedYet == nFinalize = 0 /\ last.op # "finalize"

\* C18: patch bounds. In every state each pending reference, to a label or
\* to the size, at offset p has p + 4 <= length of the buffer; the windows
\* of different pending references do not overlap; as long as finalize has
\* not been called every byte of every window is 0; and the position of
\* every label that has one is <= the length of the buffer. So the first
\* assertion of updateReference holds for every patch of finalize.
C18_PatchBounds ==
    /\ \A p \in WindowStarts :
           /\ p >= 0
           /\ p + labelReferenceSize <= Len(m_bytecode)
           /\ Len(m_bytecode) >= labelReferenceSize
           /\ p <= Len(m_bytecode) - labelReferenceSize
    /\ \A p, q \in WindowStarts :
           p < q => p + labelReferenceSize <= q
    /\ Cardinality(SizeOffsets) = Len(m_assemblySizePositions)
    /\ DOMAIN m_labelReferences \cap SizeOffsets = {}
    /\ NotFinalizedYet =>
           \A k \in WindowOffsets : m_bytecode[k + 1] = 0
    /\ \A id \in DOMAIN m_labelPositions :
           m_labelPositions[id] # NoPosition =>
               /\ m_labelPositions[id] >= 0
               /\ m_labelPositions[id] <= Len(m_bytecode)

\* a buffer that ends with the window of a label reference and holds the
\* window of a size reference, before any finalize
C18_Witness ==
    /\ NotFinalizedYet
    /\ SizeOffsets # {}
    /\ \E p \in DOMAIN m_labelReferences :
           p + labelReferenceSize = Len(m_bytecode)

\* C20: atomic failure. When a call other than finalize fails (wrong mode,
\* empty name, unknown or already set label, negative count, call that is
\* not implemented), the buffer, the stack height, the label positions,
\* the named labels, the next identifier and the pending references are
\* exactly as before the call.
C20_AtomicFailure ==
    [][(~last'.ok /\ last'.op # "finalize") =>
          /\ ObjectFrame
          /\ m_bytecode' = m_bytecode]_vars

\* appendLabel has failed for an unknown label on an object that holds
\* code, an unset label and a pending reference
C20_Witness ==
    /\ last.op = "appendLabel"
    /\ ~last.ok
    /\ last.id \notin DOMAIN m_labelPositions
    /\ \E id \in DOMAIN m_labelPositions : m_labelPositions[id] = NoPosition
    /\ DOMAIN m_labelReferences # {}

\* 256^n
RECURSIVE Pow256(_)
Pow256(n) == IF n = 0 THEN 1 ELSE 256 * Pow256(n - 1)

\* v < 2^(8 * w), for v below 2^31
Below(v, w) == w >= 4 \/ v < Pow256(w)

\* C17: appendConstant(v) appends the PUSH opcode of width w and then
\* exactly w bytes, where w is the smallest width in 1 .. 32 with
\* v < 2^(8 * w) (1 for v = 0); the w bytes read big-endian are v; the
\* bytes before them are unchanged and the stack height rises by 1.
C17_MinimalWidth ==
    [][last'.op = "appendConstant" =>
          LET v == last'.args[1]
              n == Len(m_bytecode)
              w == Len(m_bytecode') - n - 1
          IN  /\ last'.ok
              /\ w \in 1 .. 32
              /\ Below(v, w)
              /\ w > 1 => ~Below(v, w - 1)
              /\ SubSeq(m_bytecode', 1, n) = m_bytecode
              /\ m_bytecode'[n + 1] = PUSH1 + w - 1
              /\ \A k \in 1 .. w : m_bytecode'[n + 1 + k] \in 0 .. 255
              /\ ReadBigEndian(m_bytecode', n + 1, w) = v
              /\ m_stackHeight' = m_stackHeight + 1
              /\ UNCHANGED <<m_labelPositions, m_labelReferences,
                             m_assemblySizePositions>>]_vars

\* a constant of four bytes has been appended after code
C17_Witness ==
    /\ last.op = "appendConstant"
    /\ last.ok
    /\ last.args[1] >= 16777216
    /\ Len(m_bytecode) > 1 + 4
    /\ m_bytecode[Len(m_bytecode) - 4] = PUSH1 + 3

====
